---- MODULE Spec2Model ----
(***************************************************************************)
(* Model of cmd/gen-p5-example/main.go: the one-shot generator that clones *)
(* go-p5/p5, builds every example to WASM, writes the wrapper pages and    *)
(* the top-level index page.                                               *)
(*                                                                         *)
(* A Go string is a sequence of tokens (a token is a run of characters     *)
(* that the program never splits); "/" is a token of its own so that       *)
(* filepath.Join and filepath.Base are computed, not assumed.              *)
(***************************************************************************)
EXTENDS Integers, Sequences, FiniteSets, TLC

\* Largest number of entries of p5/example that a listing holds.
MaxEntries == 3
\* Largest number of variables in the inherited environment.
MaxEnvLen == 1

VARIABLES
    pc,        \* the statement of gen that runs next, or "exit0" / "exit1"
    fatal,     \* the log.Fatalf message that ended the run, "" when none
    tmp,       \* the temporary directory: "none", "exists" or "removed"
    tmpfiles,  \* files below tmp: path -> content
    environ,   \* os.Environ() of the generator's process
    revision,  \* local revision
    root,      \* the strings.Builder root
    js,        \* local js
    pkgs,      \* local pkgs, the entries os.ReadDir returned
    idx,       \* position of the range loop over pkgs
    wasm,      \* local wasm
    dirs,      \* directories made below the invoking directory
    files,     \* files written below the invoking directory: path -> content
    calls      \* the external processes and file-system calls made, in order

vars == <<pc, fatal, tmp, tmpfiles, environ, revision, root, js, pkgs, idx,
          wasm, dirs, files, calls>>

----------------------------------------------------------------------------
(* Strings and paths *)

Last(s) == s[Len(s)]

\* The elements of a path, split at the separators.
RECURSIVE Split(_)
Split(p) ==
    IF \E k \in 1..Len(p) : p[k] = "/"
    THEN LET k == CHOOSE i \in 1..Len(p) :
                      p[i] = "/" /\ \A j \in 1..(i - 1) : p[j] # "/"
         IN <<SubSeq(p, 1, k - 1)>> \o Split(SubSeq(p, k + 1, Len(p)))
    ELSE <<p>>

RECURSIVE Resolve(_, _)
Resolve(stack, elems) ==
    IF elems = <<>> THEN stack
    ELSE IF Head(elems) \in {<<>>, <<".">>} THEN Resolve(stack, Tail(elems))
    ELSE IF Head(elems) = <<"..">> /\ stack # <<>> /\ Last(stack) # <<"..">>
         THEN Resolve(SubSeq(stack, 1, Len(stack) - 1), Tail(elems))
    ELSE Resolve(Append(stack, Head(elems)), Tail(elems))

RECURSIVE Unsplit(_)
Unsplit(elems) ==
    IF elems = <<>> THEN <<>>
    ELSE IF Len(elems) = 1 THEN Head(elems)
    ELSE Head(elems) \o <<"/">> \o Unsplit(Tail(elems))

\* filepath.Clean of a relative path.
Clean(p) ==
    LET q == Unsplit(Resolve(<<>>, Split(p)))
    IN IF q = <<>> THEN <<".">> ELSE q

\* filepath.Base: the last element of the path.
RECURSIVE Base(_)
Base(p) ==
    IF p = <<>> THEN <<".">>
    ELSE IF \E k \in 1..Len(p) : p[k] = "/"
         THEN Base(Tail(p))
         ELSE p

\* filepath.Join of two relative paths.
Join(a, b) == Clean(a \o <<"/">> \o b)

Space == {" ", "\n", "\t", "\r"}

RECURSIVE TrimLeft(_)
TrimLeft(s) ==
    IF s # <<>> /\ Head(s) \in Space THEN TrimLeft(Tail(s)) ELSE s

RECURSIVE TrimRight(_)
TrimRight(s) ==
    IF s # <<>> /\ Last(s) \in Space
    THEN TrimRight(SubSeq(s, 1, Len(s) - 1))
    ELSE s

\* strings.TrimSpace
TrimSpace(s) == TrimRight(TrimLeft(s))

\* The %q verb, for strings that need no escaping.
Quote(s) == <<"\"">> \o s \o <<"\"">>

\* fmt.Sprintf for the verbs %s and %q.
RECURSIVE Sprintf(_, _)
Sprintf(format, args) ==
    IF format = <<>> THEN <<>>
    ELSE IF Head(format) = "%s"
         THEN Head(args) \o Sprintf(Tail(format), Tail(args))
    ELSE IF Head(format) = "%q"
         THEN Quote(Head(args)) \o Sprintf(Tail(format), Tail(args))
    ELSE <<Head(format)>> \o Sprintf(Tail(format), args)

indexHTML ==
    <<"\n<!doctype html>\n<!--\nCopyright 2018 The Go Authors. All rights reserved.\nUse of this source code is governed by a BSD-style\nlicense that can be found in the LICENSE file.\n-->\n<html>\n\n<head>\n        <meta charset=\"utf-8\">\n        <title>",
      "%s",
      "</title>\n</head>\n\n<body>\n        <!--\n        Add the following polyfill for Microsoft Edge 17/18 support:\n        <script src=\"https://cdn.jsdelivr.net/npm/text-encoding@0.7.0/lib/encoding.min.js\"></script>\n        (see https://caniuse.com/#feat=textencoder)\n        -->\n\t\t<script src=\"https://go-p5.github.io/assets/wasm_exec.js\"></script>\n        <script>\n                if (!WebAssembly.instantiateStreaming) { // polyfill\n                        WebAssembly.instantiateStreaming = async (resp, importObject) => {\n                                const source = await (await resp).arrayBuffer();\n                                return await WebAssembly.instantiate(source, importObject);\n                        };\n                }\n\n                const go = new Go();\n                let mod, inst;\n                WebAssembly.instantiateStreaming(fetch(\"",
      "%s",
      "\"), go.importObject).then((result) => {\n                        mod = result.module;\n                        inst = result.instance;\n                        document.getElementById(\"runButton\").disabled = false;\n                }).catch((err) => {\n                        console.error(err);\n                });\n\n                async function run() {\n                        console.clear();\n                        await go.run(inst);\n                        inst = await WebAssembly.instantiate(mod, go.importObject); // reset instance\n                }\n        </script>\n\n        <button onClick=\"run();\" id=\"runButton\" disabled>Run</button>\n</body>\n\n</html>\n">>

rootHeader ==
    <<"\n<!doctype html>\n<html>\n<head>\n        <meta charset=\"utf-8\">\n        <title>Go-P5</title>\n</head>\n\n<body>\n<h2>Welcome to the Go-P5 examples page (version=",
      "%s",
      ")</h2>\nThis page shows a few <code>go-p5</code> examples, compiled to <code>WASM</code>.\n\n<ul>\n">>

rootFooter == <<"\n</ul>\n</body>\n\n</html>\n">>

listItem == <<"<li><a href=", "%q", ">", "%s", "</a></li>\n">>

----------------------------------------------------------------------------
(* The environment of the run *)

\* The set of names that gen skips, missing one.
excludes_short == {<<"sketch">>}
\* The set of names that gen skips, with one too many.
excludes_long == {<<"sketch">>, <<"wasm-p5-ex">>, <<"a">>}
excludes == {<<"sketch">>, <<"wasm-p5-ex">>}

\* Entry names a listing of p5/example may hold, in the byte order
\* os.ReadDir sorts by.
EntryNames == <<"a", "b", "main.go", "sketch", "snake", "wasm-p5-ex">>

RECURSIVE Sorted(_)
Sorted(S) ==
    IF S = {} THEN <<>>
    ELSE LET m == CHOOSE x \in S : \A y \in S : x <= y
         IN <<m>> \o Sorted(S \ {m})

\* What os.ReadDir can return: distinct names, sorted, each a directory or
\* a regular file.
DirListings ==
    UNION { { [k \in 1..Cardinality(S) |->
                 [name |-> <<EntryNames[Sorted(S)[k]]>>,
                  isDir |-> Sorted(S)[k] \in D]] : D \in SUBSET S }
            : S \in { T \in SUBSET (1..Len(EntryNames)) : Cardinality(T) <= MaxEntries } }

EnvPool == {<<"GOOS", "linux">>, <<"GOARCH", "amd64">>, <<"HOME", "/root">>}

RECURSIVE SeqsUpTo(_, _)
SeqsUpTo(S, n) ==
    IF n = 0 THEN {<<>>}
    ELSE LET R == SeqsUpTo(S, n - 1)
         IN R \cup { Append(s, x) : s \in { r \in R : Len(r) = n - 1 }, x \in S }

Environs == SeqsUpTo(EnvPool, MaxEnvLen)

\* What `git describe --tags --always` can print.
DescribeOutputs ==
    { <<"v0.1.0", "\n">>, <<"4f2a9c1", "\n">>, <<" ", "v0.1.0-3-g4f2a9c1", "\r", "\n">> }

\* The value of a variable in an exec.Cmd environment: of a duplicated key
\* the last entry is the one the child sees.
Getenv(env, key) ==
    LET S == { k \in 1..Len(env) : env[k][1] = key }
    IN IF S = {} THEN "" ELSE env[CHOOSE k \in S : \A j \in S : j <= k][2]

\* cmd.Env of the go build command.
BuildEnv ==
    << <<"GOBIN", "$tmp/bin">>, <<"GOOS", "js">>, <<"GOARCH", "wasm">> >>
    \o environ

Target(env) == <<Getenv(env, "GOOS"), Getenv(env, "GOARCH")>>

\* What the compiler writes for a package under a target.
Binary(pkg, target) == <<"binary", target[1], target[2]>> \o pkg

Call(op, path, env, ok) ==
    calls' = Append(calls, [op |-> op, path |-> path, env |-> env, ok |-> ok])

\* log.Fatalf: the message is logged and os.Exit(1) ends the process; the
\* deferred calls do not run.
Fatalf(msg) == pc' = "exit1" /\ fatal' = msg

----------------------------------------------------------------------------
Init ==
    /\ pc = "MkdirTemp"
    /\ fatal = ""
    /\ tmp = "none"
    /\ tmpfiles = <<>>
    /\ environ \in Environs
    /\ revision = <<>>
    /\ root = <<>>
    /\ js = <<>>
    /\ pkgs = <<>>
    /\ idx = 1
    /\ wasm = <<>>
    /\ dirs = {}
    /\ files = <<>>
    /\ calls = <<>>

\* Lines 35-39: os.MkdirTemp, and the deferred os.RemoveAll is registered.
MkdirTemp ==
    /\ pc = "MkdirTemp"
    /\ \/ /\ Call("MkdirTemp", <<"$tmp">>, <<>>, TRUE)
          /\ tmp' = "exists"
          /\ pc' = "Clone"
          /\ UNCHANGED fatal
       \/ /\ Call("MkdirTemp", <<"$tmp">>, <<>>, FALSE)
          /\ Fatalf("could not create tmp dir")
          /\ UNCHANGED tmp
    /\ UNCHANGED <<tmpfiles, environ, revision, root, js, pkgs, idx, wasm, dirs, files>>

\* Lines 41-49: git clone --depth=1 -b vers, run in tmp.
Clone ==
    /\ pc = "Clone"
    /\ \/ /\ Call("git clone", <<"$tmp">>, <<>>, TRUE)
          /\ pc' = "FetchRevision"
          /\ UNCHANGED fatal
       \/ /\ Call("git clone", <<"$tmp">>, <<>>, FALSE)
          /\ Fatalf("could not initialize module")
    /\ UNCHANGED <<tmp, tmpfiles, environ, revision, root, js, pkgs, idx, wasm, dirs, files>>

\* Lines 234-239: git describe --tags --always in dir, its output trimmed.
fetchRevision(out) == TrimSpace(out)

\* Lines 51-58: the revision is resolved and the header is written to root.
FetchRevision ==
    /\ pc = "FetchRevision"
    /\ \/ \E out \in DescribeOutputs :
             /\ Call("git describe", Join(<<"$tmp">>, <<"p5">>), <<>>, TRUE)
             /\ revision' = fetchRevision(out)
             /\ root' = root \o Sprintf(rootHeader, <<fetchRevision(out)>>)
             /\ pc' = "LoadWASM"
             /\ UNCHANGED fatal
       \/ /\ Call("git describe", Join(<<"$tmp">>, <<"p5">>), <<>>, FALSE)
          /\ Fatalf("could not retrieve git revision")
          /\ UNCHANGED <<revision, root>>
    /\ UNCHANGED <<tmp, tmpfiles, environ, js, pkgs, idx, wasm, dirs, files>>

\* The bytes of $GOROOT/misc/wasm/wasm_exec.js.
wasmExecJS == <<"wasm_exec.js bytes">>

\* Lines 60-63 and 151-158: loadWASM.
LoadWASM ==
    /\ pc = "LoadWASM"
    /\ \/ /\ Call("ReadFile", <<"$GOROOT", "/", "misc", "/", "wasm", "/", "wasm_exec.js">>, <<>>, TRUE)
          /\ js' = wasmExecJS
          /\ pc' = "MkdirAssets"
          /\ UNCHANGED fatal
       \/ /\ Call("ReadFile", <<"$GOROOT", "/", "misc", "/", "wasm", "/", "wasm_exec.js">>, <<>>, FALSE)
          /\ Fatalf("could not find WASM bootstrap code")
          /\ UNCHANGED js
    /\ UNCHANGED <<tmp, tmpfiles, environ, revision, root, pkgs, idx, wasm, dirs, files>>

\* Lines 64-67: os.MkdirAll("assets").
MkdirAssets ==
    /\ pc = "MkdirAssets"
    /\ \/ /\ Call("MkdirAll", <<"assets">>, <<>>, TRUE)
          /\ dirs' = dirs \cup {<<"assets">>}
          /\ pc' = "WriteWasmExec"
          /\ UNCHANGED fatal
       \/ /\ Call("MkdirAll", <<"assets">>, <<>>, FALSE)
          /\ Fatalf("could not create 'assets'")
          /\ UNCHANGED dirs
    /\ UNCHANGED <<tmp, tmpfiles, environ, revision, root, js, pkgs, idx, wasm, files>>

\* Lines 69-72: assets/wasm_exec.js is written.
WriteWasmExec ==
    /\ pc = "WriteWasmExec"
    /\ LET fname == Join(<<"assets">>, <<"wasm_exec.js">>)
       IN \/ /\ Call("WriteFile", fname, <<>>, TRUE)
             /\ files' = (fname :> js) @@ files
             /\ pc' = "ReadDir"
             /\ UNCHANGED fatal
          \/ /\ Call("WriteFile", fname, <<>>, FALSE)
             /\ Fatalf("could not write wasm_exec.js")
             /\ UNCHANGED files
    /\ UNCHANGED <<tmp, tmpfiles, environ, revision, root, js, pkgs, idx, wasm, dirs>>

\* Lines 74-80: os.ReadDir of tmp/p5/example; the names are logged.
ReadDir ==
    /\ pc = "ReadDir"
    /\ LET d == Join(Join(<<"$tmp">>, <<"p5">>), <<"example">>)
       IN \/ \E listing \in DirListings :
                /\ Call("ReadDir", d, <<>>, TRUE)
                /\ pkgs' = listing
                /\ pc' = "Loop"
                /\ UNCHANGED fatal
          \/ /\ Call("ReadDir", d, <<>>, FALSE)
             /\ Fatalf("could not read dir")
             /\ UNCHANGED pkgs
    /\ UNCHANGED <<tmp, tmpfiles, environ, revision, root, js, idx, wasm, dirs, files>>

----------------------------------------------------------------------------
(* The range loop over pkgs, lines 82-142 *)

\* Loop locals: dir, name (line 87), pkg (line 89), fname (line 122).
dir == pkgs[idx]
name == <<"example", "/">> \o dir.name
pkg == Base(name)
fname == Join(name, pkg \o <<".wasm">>)
cmdDir == Join(<<"$tmp">>, <<"p5">>)
\* Where the -o argument of go build points, seen from cmd.Dir.
buildOutput == Join(cmdDir, <<"..", "/", "bin", "/">> \o pkg \o <<".wasm">>)

\* Lines 82-86: an excluded entry is logged and skipped.
Ignore ==
    /\ pc = "Loop"
    /\ idx <= Len(pkgs)
    /\ dir.name \in excludes
    /\ idx' = idx + 1
    /\ UNCHANGED <<pc, fatal, tmp, tmpfiles, environ, revision, root, js, pkgs,
                   wasm, dirs, files, calls>>

\* Lines 87-104, with the build failure logged and the loop going on.
Build_continue ==
    /\ pc = "Loop"
    /\ idx <= Len(pkgs)
    /\ dir.name \notin excludes
    /\ \/ /\ Call("go build", <<".", "/">> \o name, Target(BuildEnv), TRUE)
          /\ tmpfiles' = (buildOutput :> Binary(pkg, Target(BuildEnv))) @@ tmpfiles
          /\ pc' = "MkdirExample"
          /\ UNCHANGED <<fatal, idx>>
       \/ /\ Call("go build", <<".", "/">> \o name, Target(BuildEnv), FALSE)
          /\ idx' = idx + 1
          /\ UNCHANGED <<pc, fatal, tmpfiles>>
    /\ UNCHANGED <<tmp, environ, revision, root, js, pkgs, wasm, dirs, files>>

\* Lines 87-104: go build -o ../bin/<pkg>.wasm ./<name>, run in tmp/p5.
Build ==
    /\ pc = "Loop"
    /\ idx <= Len(pkgs)
    /\ dir.name \notin excludes
    /\ \/ /\ Call("go build", <<".", "/">> \o name, Target(BuildEnv), TRUE)
          /\ tmpfiles' = (buildOutput :> Binary(pkg, Target(BuildEnv))) @@ tmpfiles
          /\ pc' = "MkdirExample"
          /\ UNCHANGED fatal
       \/ /\ Call("go build", <<".", "/">> \o name, Target(BuildEnv), FALSE)
          /\ Fatalf("could not build WASM")
          /\ UNCHANGED tmpfiles
    /\ UNCHANGED <<tmp, environ, revision, root, js, pkgs, idx, wasm, dirs, files>>

\* Lines 106-109: os.MkdirAll(name).
MkdirExample ==
    /\ pc = "MkdirExample"
    /\ \/ /\ Call("MkdirAll", name, <<>>, TRUE)
          /\ dirs' = dirs \cup {name}
          /\ pc' = "WriteExampleHTML"
          /\ UNCHANGED fatal
       \/ /\ Call("MkdirAll", name, <<>>, FALSE)
          /\ Fatalf("could not create source dir")
          /\ UNCHANGED dirs
    /\ UNCHANGED <<tmp, tmpfiles, environ, revision, root, js, pkgs, idx, wasm, files>>

\* Lines 111-112: the title and the URL the page fetches the binary from.
title == <<"Go-P5: ">> \o pkg
src == Sprintf(<<"https://go-p5.github.io/example/", "%s", "/", "%s", ".wasm">>,
               <<pkg, pkg>>)

\* Lines 111-120: the wrapper page <name>/index.html is written.
WriteExampleHTML ==
    /\ pc = "WriteExampleHTML"
    /\ LET page == Join(name, <<"index.html">>)
       IN \/ /\ Call("WriteFile", page, <<>>, TRUE)
             /\ files' = (page :> Sprintf(indexHTML, <<title, src>>)) @@ files
             /\ pc' = "ReadWasm"
             /\ UNCHANGED fatal
          \/ /\ Call("WriteFile", page, <<>>, FALSE)
             /\ Fatalf("could not write example HTML")
             /\ UNCHANGED files
    /\ UNCHANGED <<tmp, tmpfiles, environ, revision, root, js, pkgs, idx, wasm, dirs>>

\* Lines 122-126: the binary is read from tmp/bin/<pkg>.wasm.
ReadWasm ==
    /\ pc = "ReadWasm"
    /\ LET from == Join(Join(<<"$tmp">>, <<"bin">>), pkg \o <<".wasm">>)
       IN \/ /\ from \in DOMAIN tmpfiles
             /\ Call("ReadFile", from, <<>>, TRUE)
             /\ wasm' = tmpfiles[from]
             /\ pc' = "WriteWasm"
             /\ UNCHANGED fatal
          \/ /\ Call("ReadFile", from, <<>>, FALSE)
             /\ Fatalf("could not read WASM binary")
             /\ UNCHANGED wasm
    /\ UNCHANGED <<tmp, tmpfiles, environ, revision, root, js, pkgs, idx, dirs, files>>

\* Lines 127-130, with the error of the write dropped.
WriteWasm_ignoreErr ==
    /\ pc = "WriteWasm"
    /\ \/ /\ Call("WriteFile", fname, <<>>, TRUE)
          /\ files' = (fname :> wasm) @@ files
       \/ /\ Call("WriteFile", fname, <<>>, FALSE)
          /\ UNCHANGED files
    /\ pc' = "GitAdd"
    /\ UNCHANGED <<fatal, tmp, tmpfiles, environ, revision, root, js, pkgs, idx, wasm, dirs>>

\* Lines 127-130: the binary is written to <name>/<pkg>.wasm.
WriteWasm ==
    /\ pc = "WriteWasm"
    /\ \/ /\ Call("WriteFile", fname, <<>>, TRUE)
          /\ files' = (fname :> wasm) @@ files
          /\ pc' = "GitAdd"
          /\ UNCHANGED fatal
       \/ /\ Call("WriteFile", fname, <<>>, FALSE)
          /\ Fatalf("could not write WASM binary")
          /\ UNCHANGED files
    /\ UNCHANGED <<tmp, tmpfiles, environ, revision, root, js, pkgs, idx, wasm, dirs>>

\* Lines 132-135, with the wrapper page staged instead of the binary.
GitAdd_page ==
    /\ pc = "GitAdd"
    /\ \/ /\ Call("git add", Join(name, <<"index.html">>), <<>>, TRUE)
          /\ pc' = "AppendItem"
          /\ UNCHANGED fatal
       \/ /\ Call("git add", Join(name, <<"index.html">>), <<>>, FALSE)
          /\ Fatalf("could not add WASM binary to repository")
    /\ UNCHANGED <<tmp, tmpfiles, environ, revision, root, js, pkgs, idx, wasm, dirs, files>>

\* Lines 132-135: git add fname, run in the invoking directory.
GitAdd ==
    /\ pc = "GitAdd"
    /\ \/ /\ Call("git add", fname, <<>>, TRUE)
          /\ pc' = "AppendItem"
          /\ UNCHANGED fatal
       \/ /\ Call("git add", fname, <<>>, FALSE)
          /\ Fatalf("could not add WASM binary to repository")
    /\ UNCHANGED <<tmp, tmpfiles, environ, revision, root, js, pkgs, idx, wasm, dirs, files>>

\* Lines 137-142, with the item put in front of what root holds.
AppendItem_front ==
    /\ pc = "AppendItem"
    /\ root' = Sprintf(listItem,
                  << <<"https://go-p5.github.io/example/">> \o pkg \o <<"/index.html">>,
                     pkg >>) \o root
    /\ idx' = idx + 1
    /\ pc' = "Loop"
    /\ UNCHANGED <<fatal, tmp, tmpfiles, environ, revision, js, pkgs, wasm, dirs,
                   files, calls>>

\* Lines 137-142: the list item of the example is appended to root and the
\* loop moves to the next entry.
AppendItem ==
    /\ pc = "AppendItem"
    /\ root' = root \o Sprintf(listItem,
                  << <<"https://go-p5.github.io/example/">> \o pkg \o <<"/index.html">>,
                     pkg >>)
    /\ idx' = idx + 1
    /\ pc' = "Loop"
    /\ UNCHANGED <<fatal, tmp, tmpfiles, environ, revision, js, pkgs, wasm, dirs,
                   files, calls>>

\* Lines 144-148: the footer is appended and index.html is written.
Finalize ==
    /\ pc = "Loop"
    /\ idx > Len(pkgs)
    /\ root' = root \o rootFooter
    /\ \/ /\ Call("WriteFile", <<"index.html">>, <<>>, TRUE)
          /\ files' = (<<"index.html">> :> root') @@ files
          /\ pc' = "Return"
          /\ UNCHANGED fatal
       \/ /\ Call("WriteFile", <<"index.html">>, <<>>, FALSE)
          /\ Fatalf("could not create root index")
          /\ UNCHANGED files
    /\ UNCHANGED <<tmp, tmpfiles, environ, revision, js, pkgs, idx, wasm, dirs>>

\* Line 149 without the deferred call of line 39.
Return_noDefer ==
    /\ pc = "Return"
    /\ pc' = "exit0"
    /\ UNCHANGED <<fatal, tmp, tmpfiles, environ, revision, root, js, pkgs, idx,
                   wasm, dirs, files, calls>>

\* Lines 149, 39 and 26-27: gen returns, the deferred os.RemoveAll(tmp) runs
\* and its error is dropped, and main returns with status 0.  A removal that
\* fails leaves the directory, with whatever it had not yet deleted.
Return ==
    /\ pc = "Return"
    /\ \/ /\ Call("RemoveAll", <<"$tmp">>, <<>>, TRUE)
          /\ tmp' = "removed"
          /\ tmpfiles' = <<>>
       \/ /\ Call("RemoveAll", <<"$tmp">>, <<>>, FALSE)
          /\ tmp' = "exists"
          /\ \E left \in SUBSET (DOMAIN tmpfiles) :
                tmpfiles' = [p \in left |-> tmpfiles[p]]
    /\ pc' = "exit0"
    /\ UNCHANGED <<fatal, environ, revision, root, js, pkgs, idx, wasm, dirs, files>>

Next ==
    \/ MkdirTemp \/ Clone \/ FetchRevision \/ LoadWASM \/ MkdirAssets
    \/ WriteWasmExec \/ ReadDir \/ Ignore \/ Build \/ MkdirExample
    \/ WriteExampleHTML \/ ReadWasm \/ WriteWasm \/ GitAdd \/ AppendItem
    \/ Finalize \/ Return

Spec == Init /\ [][Next]_vars

----------------------------------------------------------------------------
(* Vocabulary of the properties.  The paths and the page fragments are     *)
(* written out here, independently of the operators the actions use.       *)

ExclusionSet == {"sketch", "wasm-p5-ex"}

EntryName(k) == pkgs[k].name[1]
NonExcluded(k) == EntryName(k) \notin ExclusionSet
Examples == { k \in 1..Len(pkgs) : NonExcluded(k) }

Mentions(s, tok) == \E i \in 1..Len(s) : s[i] = tok

BuildArg(n) == <<".", "/", "example", "/", n>>
ExampleDir(n) == <<"example", "/", n>>
PagePath(n) == <<"example", "/", n, "/", "index.html">>
WasmPath(n) == <<"example", "/", n, "/", n, ".wasm">>
BinPath(n) == <<"$tmp", "/", "bin", "/", n, ".wasm">>
IndexPath == <<"index.html">>

CallsOf(op, path) ==
    { i \in 1..Len(calls) : calls[i].op = op /\ calls[i].path = path }
Done(op, path) == \E i \in CallsOf(op, path) : calls[i].ok

\* The example went through compile, wrapper page, artifact copy and staging.
Processed(n) ==
    /\ Done("go build", BuildArg(n))
    /\ Done("WriteFile", PagePath(n))
    /\ Done("WriteFile", WasmPath(n))
    /\ Done("git add", WasmPath(n))

ItemOf(n) ==
    <<"<li><a href=", "\"", "https://go-p5.github.io/example/", n, "/index.html",
      "\"", ">", n, "</a></li>\n">>

RECURSIVE ItemsFrom(_)
ItemsFrom(k) ==
    IF k > Len(pkgs) THEN <<>>
    ELSE (IF NonExcluded(k) /\ Processed(EntryName(k))
          THEN ItemOf(EntryName(k)) ELSE <<>>) \o ItemsFrom(k + 1)

HeaderOf(rev) ==
    <<"\n<!doctype html>\n<html>\n<head>\n        <meta charset=\"utf-8\">\n        <title>Go-P5</title>\n</head>\n\n<body>\n<h2>Welcome to the Go-P5 examples page (version=">>
    \o rev
    \o <<")</h2>\nThis page shows a few <code>go-p5</code> examples, compiled to <code>WASM</code>.\n\n<ul>\n">>

FooterText == <<"\n</ul>\n</body>\n\n</html>\n">>

NumItems(s) == Cardinality({ i \in 1..Len(s) : s[i] = "<li><a href=" })

Staged == { calls[i].path : i \in { j \in 1..Len(calls) : calls[j].op = "git add" /\ calls[j].ok } }

NoTraceOf(tok) ==
    /\ \A i \in 1..Len(calls) : ~Mentions(calls[i].path, tok)
    /\ \A d \in dirs : ~Mentions(d, tok)
    /\ \A p \in DOMAIN files : ~Mentions(p, tok) /\ ~Mentions(files[p], tok)
    /\ \A p \in DOMAIN tmpfiles : ~Mentions(p, tok)
    /\ ~Mentions(root, tok)

----------------------------------------------------------------------------
\* C1: every enumerated name outside the exclusion set is compiled at most
\* once in any run, and exactly once in a run that ends without a failure.
C1_OneCompilePerExample ==
    \A k \in Examples :
        LET n == Cardinality(CallsOf("go build", BuildArg(EntryName(k))))
        IN n <= 1 /\ (pc = "exit0" => n = 1)

C1_Witness ==
    /\ pc = "exit0"
    /\ Cardinality(Examples) = 2
    /\ Len(pkgs) = 3
    /\ \A k \in Examples : Cardinality(CallsOf("go build", BuildArg(EntryName(k)))) = 1

\* C2: for an enumerated name of the exclusion set there is never a compile,
\* a wrapper page, an artifact copy or a staging, and no list item for it in
\* the index buffer or in the written index page.
C2_ExcludedUntouched ==
    \A k \in 1..Len(pkgs) : EntryName(k) \in ExclusionSet => NoTraceOf(EntryName(k))

C2_Witness ==
    /\ pc = "exit0"
    /\ \E k \in 1..Len(pkgs) : EntryName(k) = "sketch"
    /\ \E k \in 1..Len(pkgs) : EntryName(k) = "wasm-p5-ex"
    /\ \E k \in Examples : Processed(EntryName(k))

\* C3: the written index.html is the header with the revision, then one list
\* item per example that went through the whole pipeline, in enumeration
\* order, then the footer; and index.html is written at most once.
C3_IndexContent ==
    /\ Cardinality(CallsOf("WriteFile", IndexPath)) <= 1
    /\ IndexPath \in DOMAIN files =>
          files[IndexPath] = HeaderOf(revision) \o ItemsFrom(1) \o FooterText

C3_Witness ==
    /\ IndexPath \in DOMAIN files
    /\ revision = <<"v0.1.0-3-g4f2a9c1">>
    /\ NumItems(files[IndexPath]) = 2
    /\ Len(pkgs) = 3
    /\ ~NonExcluded(2)

\* C4: when the compile of the k-th example fails, index.html is never
\* written, and the pages and binaries of the examples before it stay
\* written and staged.
C4_CompileFailure ==
    \A k \in Examples :
        (\E i \in CallsOf("go build", BuildArg(EntryName(k))) : ~calls[i].ok) =>
            /\ IndexPath \notin DOMAIN files
            /\ CallsOf("WriteFile", IndexPath) = {}
            /\ \A j \in Examples : j < k =>
                  /\ PagePath(EntryName(j)) \in DOMAIN files
                  /\ WasmPath(EntryName(j)) \in DOMAIN files
                  /\ WasmPath(EntryName(j)) \in Staged

C4_Witness ==
    /\ pc = "exit1"
    /\ fatal = "could not build WASM"
    /\ Cardinality(Examples) = 3
    /\ ~Last(calls).ok
    /\ Last(calls).path = BuildArg(EntryName(3))
    /\ Cardinality(Staged) = 2

\* C5: once the process has ended, with or without a fatal failure, the
\* temporary directory does not exist.
C5_TmpRemovedOnEveryExit ==
    pc \in {"exit0", "exit1"} => tmp # "exists"

\* C6: after a run in which every step succeeded the temporary directory is
\* gone, and it is removed only after index.html has been written.
C6_CleanupAfterSuccess ==
    /\ (pc = "exit0" /\ \A i \in 1..Len(calls) : calls[i].ok) => tmp = "removed"
    /\ tmp = "removed" => IndexPath \in DOMAIN files
    /\ \A i \in CallsOf("RemoveAll", <<"$tmp">>) :
          \E j \in CallsOf("WriteFile", IndexPath) : j < i /\ calls[j].ok

C6_Witness ==
    /\ pc = "exit0"
    /\ tmp = "removed"
    /\ Cardinality(Examples) >= 2
    /\ IndexPath \in DOMAIN files

\* C7: every compile runs with GOOS=js and GOARCH=wasm in effect, whatever
\* the inherited environment holds.
C7_TargetIsJsWasm ==
    \A i \in 1..Len(calls) :
        calls[i].op = "go build" => calls[i].env = <<"js", "wasm">>

\* C8: after a run in which every step succeeded, the staged paths are
\* exactly example/<n>/<n>.wasm for the enumerated names n outside the
\* exclusion set, each staged once.
C8_StagedExactly ==
    pc = "exit0" =>
        /\ Staged = { WasmPath(EntryName(k)) : k \in Examples }
        /\ \A k \in Examples :
              Cardinality(CallsOf("git add", WasmPath(EntryName(k)))) = 1
        /\ Cardinality({ i \in 1..Len(calls) : calls[i].op = "git add" })
              = Cardinality(Examples)

C8_Witness ==
    /\ pc = "exit0"
    /\ Len(pkgs) = 3
    /\ <<EntryName(1), EntryName(2), EntryName(3)>> = <<"a", "b", "sketch">>
    /\ Staged = {<<"example", "/", "a", "/", "a", ".wasm">>,
                 <<"example", "/", "b", "/", "b", ".wasm">>}
    /\ revision = <<"v0.1.0">>
    /\ files[IndexPath] = HeaderOf(<<"v0.1.0">>) \o ItemOf("a") \o ItemOf("b") \o FooterText

\* The calls a run makes when nothing fails, in order.
PrologueCalls ==
    << <<"MkdirTemp", <<"$tmp">> >>,
       <<"git clone", <<"$tmp">> >>,
       <<"git describe", <<"$tmp", "/", "p5">> >>,
       <<"ReadFile", <<"$GOROOT", "/", "misc", "/", "wasm", "/", "wasm_exec.js">> >>,
       <<"MkdirAll", <<"assets">> >>,
       <<"WriteFile", <<"assets", "/", "wasm_exec.js">> >>,
       <<"ReadDir", <<"$tmp", "/", "p5", "/", "example">> >> >>

ExampleCalls(n) ==
    << <<"go build", BuildArg(n)>>,
       <<"MkdirAll", ExampleDir(n)>>,
       <<"WriteFile", PagePath(n)>>,
       <<"ReadFile", BinPath(n)>>,
       <<"WriteFile", WasmPath(n)>>,
       <<"git add", WasmPath(n)>> >>

RECURSIVE LoopCallsFrom(_)
LoopCallsFrom(k) ==
    IF k > Len(pkgs) THEN <<>>
    ELSE (IF NonExcluded(k) THEN ExampleCalls(EntryName(k)) ELSE <<>>)
         \o LoopCallsFrom(k + 1)

LinearRun ==
    PrologueCalls \o LoopCallsFrom(1)
    \o << <<"WriteFile", IndexPath>>, <<"RemoveAll", <<"$tmp">> >> >>

\* The calls made are a prefix of the linear run, every call but the last
\* succeeded, and the list item of an example is appended after its staging
\* and before the next compile.
StepsInOrder ==
    /\ Len(calls) <= Len(LinearRun)
    /\ \A i \in 1..Len(calls) :
          /\ <<calls[i].op, calls[i].path>> = LinearRun[i]
          /\ i < Len(calls) => calls[i].ok
    /\ LET adds == Cardinality({ i \in 1..Len(calls) : calls[i].op = "git add" /\ calls[i].ok })
       IN \/ NumItems(root) = adds
          \/ /\ NumItems(root) = adds - 1
             /\ Last(calls).op = "git add"

\* C9 as stated: the steps happen in the one linear order, each after the
\* previous one succeeded; a failing step of any kind is the last step of the
\* run and the run then ends with a nonzero status.
C9_AnyFailureExitsNonzero ==
    /\ StepsInOrder
    /\ (calls # <<>> /\ ~Last(calls).ok) <=> pc = "exit1"

\* C9 as amended: the steps happen in the one linear order, each after the
\* previous one succeeded; a failing step other than the final removal of the
\* temporary directory is the last step of the run and the run then ends
\* with a nonzero status; a failed removal of the temporary directory is
\* also the last step, and the run ends with status 0.
C9_LinearFailFast ==
    /\ StepsInOrder
    /\ (calls # <<>> /\ ~Last(calls).ok /\ Last(calls).op # "RemoveAll")
          <=> pc = "exit1"
    /\ (calls # <<>> /\ ~Last(calls).ok /\ Last(calls).op = "RemoveAll")
          => pc = "exit0"

C9_Witness ==
    /\ pc = "exit1"
    /\ Cardinality(Examples) = 2
    /\ Last(calls).op = "git add"
    /\ ~Last(calls).ok
    /\ NumItems(root) = 1
    /\ Len(calls) = Len(PrologueCalls) + 12

\* C10: an entry of the example folder that is a regular file and is not in
\* the exclusion set is never compiled, given a page, staged or listed.
C10_OnlyDirectories ==
    \A k \in Examples : ~pkgs[k].isDir => NoTraceOf(EntryName(k))

====
